------------------------------ MODULE Spec2Model ------------------------------
(***************************************************************************)
(* Integer-point scanning of bounded basic sets (isl_scan.c) and the       *)
(* interned identifiers of a context (isl_id.c).                           *)
(*                                                                         *)
(* A basic set of total dimension d is a conjunction of constraint rows    *)
(* <<c, a_1, ..., a_d>> (isl's layout: the constant first), read as        *)
(* c + a.x = 0 for the rows of "eq" and c + a.x >= 0 for those of "ineq".  *)
(* Points are homogeneous vectors <<den, p_1, ..., p_d>> standing for      *)
(* p/den; a sample handed to a callback is <<1, x_1, ..., x_d>>.           *)
(***************************************************************************)
EXTENDS Integers, Sequences, FiniteSets, TLC

\* Largest coordinate bound used in the catalogue of basic sets.
MaxCoord == 2
\* Largest cap passed to the counting entry points (0 is "unlimited").
MaxCap == 3
\* A stopping callback stops at its k-th invocation, k in 1..MaxStop.
MaxStop == 2

---------------------------------------------------------------------------
(* Vectors and rows *)

RECURSIVE DotFrom(_, _, _)
DotFrom(r, q, i) ==
    IF i > Len(r) THEN 0 ELSE r[i] * q[i] + DotFrom(r, q, i + 1)

\* isl_seq_inner_product: the value of row r at the homogeneous point q.
Dot(r, q) == DotFrom(r, q, 1)

\* isl_seq_neg(row + 1, row + 1, dim): negate the variable part of a row.
NegVars(r) == [i \in 1..Len(r) |-> IF i = 1 THEN r[i] ELSE -r[i]]

\* isl_int_cdiv_q(n, 2): n/2 rounded up.
CeilHalf(n) == -((-n) \div 2)

SetMin(S) == CHOOSE m \in S : \A n \in S : m <= n

---------------------------------------------------------------------------
(* The catalogue of basic sets *)

BSet(d, eqs, ineqs) == [dim |-> d, eq |-> eqs, ineq |-> ineqs]

\* lo <= x <= hi
Seg(lo, hi) == BSet(1, {}, {<<-lo, 1>>, <<hi, -1>>})
\* 0 <= x <= w, 0 <= y <= h
Box(w, h) == BSet(2, {}, {<<0, 1, 0>>, <<w, -1, 0>>, <<0, 0, 1>>, <<h, 0, -1>>})
\* x >= 0, y >= 0, x + y <= n
Tri(n) == BSet(2, {}, {<<0, 1, 0>>, <<0, 0, 1>>, <<n, -1, -1>>})
\* 0 <= x <= n, 0 <= y - x <= 1
Par(n) == BSet(2, {}, {<<0, 1, 0>>, <<n, -1, 0>>, <<0, -1, 1>>, <<1, 1, -1>>})

\* zero-dimensional: the universe, and the empty set (the equality 1 = 0)
Zero == BSet(0, {}, {})
ZeroEmpty == BSet(0, {<<1>>}, {})
\* 2x = 1: bounded, one rational point, no integer point
HalfPoint == BSet(1, {<<-1, 2>>}, {})
\* x + y = 1, x = y: the rational point (1/2, 1/2)
FracPoint == BSet(2, {<<-1, 1, 1>>, <<0, 1, -1>>}, {})
\* x >= 1, x <= 0, 0 <= y <= 1: rationally empty
Empty2 == BSet(2, {}, {<<-1, 1, 0>>, <<0, -1, 0>>, <<0, 0, 1>>, <<1, 0, -1>>})
\* unbounded sets
Ray == BSet(1, {}, {<<0, 1>>})
HalfStrip == BSet(2, {}, {<<0, 1, 0>>, <<0, 0, 1>>, <<1, 0, -1>>})
Strip == BSet(2, {}, {<<0, 0, 1>>, <<1, 0, -1>>})
\* 2x = 1, y free: unbounded, no integer point
HalfLine == BSet(2, {<<-1, 2, 0>>}, {})

BoundedCatalogue ==
    {Zero, ZeroEmpty, HalfPoint, FracPoint, Empty2}
    \cup {Seg(lo, hi) : lo \in 0..1, hi \in 0..MaxCoord}
    \cup {Box(w, h) : w \in 1..MaxCoord, h \in (MaxCoord - 1)..MaxCoord}
    \cup {Tri(n) : n \in 1..MaxCoord}
    \cup {Par(n) : n \in (MaxCoord - 1)..MaxCoord}

UnboundedCatalogue == {Ray, HalfStrip, Strip, HalfLine}

BasicSets == BoundedCatalogue \cup UnboundedCatalogue

---------------------------------------------------------------------------
(* Geometry of a constraint system.  Every row of the catalogue and of the *)
(* bases below has its variable part in {-1,0,1}^d, or is 2x = 1, so every *)
(* vertex of a set, and of a slice of it by basis equalities, has          *)
(* coordinates in (1/2)Z: the rational optimum of a bounded linear program *)
(* is attained on the half-integer grid.                                   *)

\* Every vertex lies in [-Radius, Radius]^d.
Radius == MaxCoord + 1

RatPoints(d) == {<<2>> \o p : p \in [1..d -> (-2 * Radius)..(2 * Radius)]}
IntBox(d) == {<<1>> \o p : p \in [1..d -> (-Radius)..Radius]}
Rays(d) == {<<0>> \o p : p \in [1..d -> -1..1]} \ {<<0>> \o [i \in 1..d |-> 0]}

\* q satisfies the equalities eqs and the inequalities ineqs
Sat(eqs, ineqs, q) ==
    /\ \A r \in eqs : Dot(r, q) = 0
    /\ \A r \in ineqs : Dot(r, q) >= 0

\* the integer points of a basic set, as samples <<1, x>>
IntPoints(b) == {q \in IntBox(b.dim) : Sat(b.eq, b.ineq, q)}

\* r is a direction of recession of the constraint system
Recedes(eqs, ineqs, r) ==
    /\ \A e \in eqs : Dot(e, r) = 0
    /\ \A e \in ineqs : Dot(e, r) >= 0

RatEmpty(b) == \A q \in RatPoints(b.dim) : ~Sat(b.eq, b.ineq, q)

\* the rational polyhedron of b is unbounded in some direction
Unbounded(b) ==
    /\ ~RatEmpty(b)
    /\ \E r \in Rays(b.dim) : Recedes(b.eq, b.ineq, r)

---------------------------------------------------------------------------
(* The tableau facade (isl_tab.h).  A tableau holds the constraints of the *)
(* basic set it was built from and the stack of equalities added since;    *)
(* a snapshot is the height of that stack.                                 *)

NoTab == [eq |-> {}, ineq |-> {}, added |-> <<>>, dim |-> -1]

isl_tab_from_basic_set(b) ==
    [eq |-> b.eq, ineq |-> b.ineq, added |-> <<>>, dim |-> b.dim]

TabEqs(t) == t.eq \cup {t.added[i] : i \in 1..Len(t.added)}

TabPoints(t) == {q \in RatPoints(t.dim) : Sat(TabEqs(t), t.ineq, q)}

\* isl_tab_min(tab, f, one, &opt, NULL, 0): minimise the row f over the
\* tableau; with no denominator asked for, the optimum is rounded up.
isl_tab_min(t, f) ==
    LET F == TabPoints(t) IN
    IF F = {} THEN [res |-> "empty", opt |-> 0]
    ELSE IF \E r \in Rays(t.dim) : Recedes(TabEqs(t), t.ineq, r) /\ Dot(f, r) < 0
    THEN [res |-> "unbounded", opt |-> 0]
    ELSE [res |-> "ok", opt |-> CeilHalf(SetMin({Dot(f, q) : q \in F}))]

isl_tab_snap(t) == Len(t.added)

isl_tab_rollback(t, s) == [t EXCEPT !.added = SubSeq(@, 1, s)]

isl_tab_add_valid_eq(t, row) == [t EXCEPT !.added = Append(@, row)]

\* isl_tab_get_sample_value: with every basis direction fixed, the one point
\* left in the tableau.
isl_tab_get_sample_value(t) ==
    CHOOSE q \in IntBox(t.dim) : Sat(TabEqs(t), t.ineq, q)

\* The rows 1..d of the bases isl_tab_compute_reduced_basis may return:
\* unimodular, column 0 zero.  Row 0 is the homogeneous row.
Bases(d) ==
    IF d = 1 THEN {<<<<1, 0>>, <<0, 1>>>>, <<<<1, 0>>, <<0, -1>>>>}
    ELSE {<<<<1, 0, 0>>, <<0, 1, 0>>, <<0, 0, 1>>>>,
          <<<<1, 0, 0>>, <<0, 0, 1>>, <<0, 1, 0>>>>,
          <<<<1, 0, 0>>, <<0, 1, 1>>, <<0, 0, 1>>>>,
          <<<<1, 0, 0>>, <<0, 1, -1>>, <<0, 1, 0>>>>}

\* (variant) the rows of the basis taken from the last one
BRow_reversed(M, lv) == M[Len(M) - lv]

\* B->row[1 + level]
BRow(M, lv) == M[lv + 2]

---------------------------------------------------------------------------
(* Callbacks *)

UserCb(k) == [kind |-> "user", stopAt |-> k]
CounterCb == [kind |-> "counter", stopAt |-> 0]

\* A caller's callback that has been invoked n times (this one included):
\* it stops at its stopAt-th invocation; stopAt = 0 never stops.
user_add(c, n) == IF c.stopAt # 0 /\ n >= c.stopAt THEN -1 ELSE 0

increment_counter(c) ==
    LET count == c.count + 1 IN
    [cnt |-> [c EXCEPT !.count = count],
     r |-> IF c.max = 0 \/ count < c.max THEN 0 ELSE -1]

\* (variant) the range max - min counted without its last point
increment_range_short(c, mn, mx) ==
    LET count == c.count + mx - mn IN
    IF c.max = 0 \/ count < c.max
    THEN [cnt |-> [c EXCEPT !.count = count], r |-> 0]
    ELSE [cnt |-> [c EXCEPT !.count = c.max], r |-> -1]

increment_range(c, mn, mx) ==
    LET count == c.count + mx - mn + 1 IN
    IF c.max = 0 \/ count < c.max
    THEN [cnt |-> [c EXCEPT !.count = count], r |-> 0]
    ELSE [cnt |-> [c EXCEPT !.count = c.max], r |-> -1]

---------------------------------------------------------------------------
(* State *)

VARIABLES
    set,        \* the pieces set->p[0..n) of the caller's set, made disjoint;
                \* the caller's basic set is the first piece
    entry,      \* the entry point the caller is in, or "none"
    pc,         \* position of the control
    piece,      \* isl_set_scan: i, the index of the piece being scanned
    bset,       \* isl_basic_set_scan: the basic set being scanned
    cb,         \* the callback of the call
    cnt,        \* struct isl_counter: count and max
    tab,        \* isl_basic_set_scan: the tableau
    B,          \* the copy of the reduced basis
    level,      \* the basis direction being fixed
    init,       \* first value wanted at this level (else the next one)
    empty,      \* the local "empty" of the current iteration
    min,        \* min->el[0..d)
    max,        \* max->el[0..d)
    snap,       \* snap[0..d): -1 where never written
    valid,      \* valid[0..d): snap[l] is a snapshot of the tableau as it
                \* is, or of a state it has been rolled back to since
    held,       \* what the running call holds and has not released
    scanRet,    \* what the last isl_basic_set_scan returned
    setRet,     \* what the last isl_set_scan returned
    ret,        \* what the entry point returned to the caller
    out,        \* *count of the caller: -1 while untouched
    delivered,  \* the samples passed to callback->add during the call
    base,       \* Len(delivered) when the running basic set scan began
    ranges,     \* the increment_range invocations: <<level, min, max>>
    err,        \* why the running call went to its error label
    lastScan,   \* callbacks made by the last complete collector scan of
                \* the caller's basic set, -1 if there was none
    freed       \* how many times the running (or last) basic set scan has
                \* released each of its resources

\* The identifiers of one context (isl_id.c)
VARIABLES
    heap,       \* the isl_id structures, by address
    live,       \* the addresses allocated and not freed
    table,      \* ctx->id_table: the addresses of the entries
    ctxRef,     \* the references identifiers hold on the context
    holds,      \* references the caller holds on each address:
                \* interns + copies - frees
    fin,        \* finalizer runs on the identifier last allocated at
                \* each address
    result,     \* what the last isl_id_alloc returned (-1: NULL)
    crashed,    \* a fault of the process (undefined behaviour)
    asked,      \* the key result was returned for (NoKey with NULL)
    onNone,     \* "copy" or "free" when the last call of the caller was
                \* that of isl_id_none, "no" otherwise
    finArg      \* the argument of the last finalizer run on the identifier
                \* last allocated at each address (-1: none)

idVars == <<heap, live, table, ctxRef, holds, fin, result, crashed, asked,
            onNone, finArg>>

callVars == <<set, entry, pc, piece, bset, cb, cnt>>
scanVars == <<tab, B, level, init, empty, min, max, snap, valid>>
retVars == <<scanRet, setRet, ret, out>>
histVars == <<delivered, base, ranges, err, lastScan, freed>>
vars == <<callVars, scanVars, held, retVars, histVars, idVars>>

NoBSet == BSet(-1, {}, {})
NoCb == [kind |-> "none", stopAt |-> 0]

\* Sets of one piece, and of two pieces without a common integer point
\* (what isl_set_make_disjoint leaves).
Pieces == {Zero, ZeroEmpty, HalfPoint, Seg(0, 0), Seg(1, 0), Seg(1, MaxCoord)}

Sets ==
    {<<b>> : b \in BasicSets}
    \cup {s \in Pieces \X Pieces :
              /\ s[1].dim = s[2].dim
              /\ IntPoints(s[1]) \cap IntPoints(s[2]) = {}}

\* what isl_basic_set_scan acquires: the three arrays, and with the
\* tableau, its argument and the copy of the basis all it has to release
Allocs == {"min", "max", "snap"}
ScanRes == {"tab", "snap", "min", "max", "bset", "B"}

NoneFreed == [r \in ScanRes |-> 0]

\* the resources of R that are held are released, once each
Release(R) ==
    /\ held' = held \ R
    /\ freed' = [r \in ScanRes |->
                    IF r \in R \cap held THEN freed[r] + 1 ELSE freed[r]]

\* The state between two calls of the caller, results of the last one kept.
Fresh ==
    /\ tab = NoTab /\ B = <<>> /\ level = 0 /\ init = TRUE /\ empty = FALSE
    /\ min = <<>> /\ max = <<>> /\ snap = <<>> /\ valid = <<>>

ScanInit(S) ==
    /\ set \in S
    /\ entry = "none" /\ pc = "idle" /\ piece = 0
    /\ bset = NoBSet /\ cb = NoCb /\ cnt = [count |-> 0, max |-> 0]
    /\ Fresh
    /\ held = {}
    /\ scanRet = 0 /\ setRet = 0 /\ ret = 0 /\ out = -1
    /\ delivered = <<>> /\ base = 0 /\ ranges = <<>> /\ err = "none"
    /\ lastScan = -1
    /\ freed = NoneFreed

\* What a caller's call starts from: nothing held, nothing delivered.
Begin(e, c, k) ==
    /\ freed' = NoneFreed
    /\ pc = "idle"
    /\ entry' = e /\ cb' = c /\ cnt' = k
    /\ scanRet' = 0 /\ setRet' = 0 /\ ret' = 0 /\ out' = -1
    /\ delivered' = <<>> /\ base' = 0 /\ ranges' = <<>> /\ err' = "none"
    /\ UNCHANGED <<set, scanVars, lastScan,
                   idVars>>

---------------------------------------------------------------------------
(* isl_basic_set_scan *)

\* What the setup holds, beside the basic set, when it jumps to the error
\* label: an allocation failed (some of min, max, snap are NULL), or the
\* tableau could not be built or reduced (tab is NULL), or extending the
\* tableau or copying the basis failed (tab is held).
SetupFailures == ((SUBSET Allocs) \ {Allocs}) \cup {Allocs, Allocs \cup {"tab"}}

\* callback->add(callback, sample), the sample being the n-th one delivered
callback_add(c, k, n) ==
    IF c.kind = "counter" THEN increment_counter(k)
    ELSE [cnt |-> k, r |-> user_add(c, n)]

\* (variant) a zero-dimensional set with a constraint is taken for empty
\* and nothing is delivered
scan_0D_skips_empty ==
    /\ pc = "scan_begin" /\ bset.dim = 0
    /\ Release({"bset"})
    /\ base' = Len(delivered)
    /\ pc' = "scan_done"
    /\ IF bset.eq # {}
       THEN /\ scanRet' = 0
            /\ UNCHANGED <<cnt, delivered, err>>
       ELSE LET a == callback_add(cb, cnt, Len(delivered) + 1) IN
            /\ delivered' = Append(delivered, <<1>>)
            /\ cnt' = a.cnt
            /\ scanRet' = a.r
            /\ err' = IF a.r < 0 THEN "stop" ELSE err
    /\ UNCHANGED <<set, entry, piece, bset, cb, scanVars, setRet, ret, out,
                   ranges, lastScan, idVars>>

\* lines 66-80: the zero-dimensional case
scan_0D ==
    /\ pc = "scan_begin" /\ bset.dim = 0
    /\ Release({"bset"})
    /\ base' = Len(delivered)
    /\ pc' = "scan_done"
    /\ \E ok \in BOOLEAN :
         IF ~ok
         THEN /\ scanRet' = -1 /\ err' = "fault"
              /\ UNCHANGED <<cnt, delivered>>
         ELSE LET a == callback_add(cb, cnt, Len(delivered) + 1) IN
              /\ delivered' = Append(delivered, <<1>>)
              /\ cnt' = a.cnt
              /\ scanRet' = a.r
              /\ err' = IF a.r < 0 THEN "stop" ELSE err
    /\ UNCHANGED <<set, entry, piece, bset, cb, scanVars, setRet, ret, out,
                   ranges, lastScan,
                   idVars>>

\* lines 120-143: the vectors, the tableau and the reduced basis
isl_basic_set_scan_setup ==
    /\ pc = "scan_begin" /\ bset.dim > 0
    /\ \E M \in Bases(bset.dim) :
         /\ tab' = isl_tab_from_basic_set(bset)
         /\ B' = M
    /\ min' = [i \in 0..(bset.dim - 1) |-> 0]
    /\ max' = [i \in 0..(bset.dim - 1) |-> 0]
    /\ snap' = [i \in 0..(bset.dim - 1) |-> -1]
    /\ valid' = [i \in 0..(bset.dim - 1) |-> FALSE]
    /\ level' = 0 /\ init' = TRUE /\ empty' = FALSE
    /\ held' = held \cup Allocs \cup {"tab", "B"}
    /\ base' = Len(delivered)
    /\ pc' = "loop_head"
    /\ UNCHANGED <<set, entry, piece, bset, cb, cnt, retVars, delivered,
                   ranges, err, lastScan, freed,
                   idVars>>

\* lines 124-140: one of the "goto error" of the setup
isl_basic_set_scan_setup_fail ==
    /\ pc = "scan_begin" /\ bset.dim > 0
    /\ \E got \in SetupFailures : held' = held \cup got
    /\ base' = Len(delivered)
    /\ err' = "fault"
    /\ pc' = "scan_error"
    /\ UNCHANGED <<set, entry, piece, bset, cb, cnt, scanVars, retVars,
                   delivered, ranges, lastScan, freed,
                   idVars>>

\* (variant) no snapshot is taken after the range is computed
scan_range_without_snapshot ==
    /\ pc = "loop_head" /\ level >= 0 /\ init
    /\ \E fail \in {"none", "min", "max"} :
         LET f == BRow(B, level)
             lo == isl_tab_min(tab, f)
             hi == isl_tab_min(tab, NegVars(f))
         IN IF fail = "min" \/ lo.res = "unbounded"
            THEN /\ pc' = "scan_error"
                 /\ err' = IF fail = "min" THEN "fault" ELSE "unbounded"
                 /\ UNCHANGED <<min, max, snap, valid, empty>>
            ELSE /\ min' = [min EXCEPT ![level] =
                               IF lo.res = "ok" THEN lo.opt ELSE @]
                 /\ max' = [max EXCEPT ![level] =
                               IF hi.res = "ok" /\ fail = "none"
                               THEN -hi.opt ELSE -@]
                 /\ IF fail = "max" \/ hi.res = "unbounded"
                    THEN /\ pc' = "scan_error"
                         /\ err' = IF fail = "max" THEN "fault" ELSE "unbounded"
                         /\ UNCHANGED <<snap, valid, empty>>
                    ELSE /\ empty' = (lo.res = "empty" \/ hi.res = "empty")
                         /\ UNCHANGED <<snap, valid>>
                         /\ pc' = "loop_test"
                         /\ UNCHANGED err
    /\ UNCHANGED <<set, entry, piece, bset, cb, cnt>>
    /\ UNCHANGED <<tab, B, level, init, held, retVars, delivered, base,
                   ranges, lastScan, freed,
                   idVars>>

\* lines 147-165: the range of the current level, and its snapshot
scan_range ==
    /\ pc = "loop_head" /\ level >= 0 /\ init
    /\ \E fail \in {"none", "min", "max"} :
         LET f == BRow(B, level)
             lo == isl_tab_min(tab, f)
             hi == isl_tab_min(tab, NegVars(f))
         IN IF fail = "min" \/ lo.res = "unbounded"
            THEN /\ pc' = "scan_error"
                 /\ err' = IF fail = "min" THEN "fault" ELSE "unbounded"
                 /\ UNCHANGED <<min, max, snap, valid, empty>>
            ELSE /\ min' = [min EXCEPT ![level] =
                               IF lo.res = "ok" THEN lo.opt ELSE @]
                 /\ max' = [max EXCEPT ![level] =
                               IF hi.res = "ok" /\ fail = "none"
                               THEN -hi.opt ELSE -@]
                 /\ IF fail = "max" \/ hi.res = "unbounded"
                    THEN /\ pc' = "scan_error"
                         /\ err' = IF fail = "max" THEN "fault" ELSE "unbounded"
                         /\ UNCHANGED <<snap, valid, empty>>
                    ELSE /\ empty' = (lo.res = "empty" \/ hi.res = "empty")
                         /\ snap' = [snap EXCEPT ![level] = isl_tab_snap(tab)]
                         /\ valid' = [valid EXCEPT ![level] = TRUE]
                         /\ pc' = "loop_test"
                         /\ UNCHANGED err
    /\ UNCHANGED <<set, entry, piece, bset, cb, cnt>>
    /\ UNCHANGED <<tab, B, level, init, held, retVars, delivered, base,
                   ranges, lastScan, freed,
                   idVars>>

\* line 167: the next value at this level
scan_advance ==
    /\ pc = "loop_head" /\ level >= 0 /\ ~init
    /\ min' = [min EXCEPT ![level] = @ + 1]
    /\ empty' = FALSE
    /\ pc' = "loop_test"
    /\ UNCHANGED <<set, entry, piece, bset, cb, cnt, tab, B, level, init,
                   max, snap, valid, held, retVars, histVars,
                   idVars>>

\* (variant) the last value of the range is taken for its end
Exhausted_at_max == empty \/ min[level] >= max[level]

\* line 169
Exhausted == empty \/ min[level] > max[level]
\* (variant) the level is not looked at
Shortcut_at_any_level == cb.kind = "counter"

\* line 177: callback->add == increment_counter at the last level
Shortcut == level = bset.dim - 1 /\ cb.kind = "counter"

\* the snapshots left after a rollback to the snapshot s: those taken
\* since are gone with what the rollback undoes
StillValid(s) == [l \in DOMAIN valid |-> valid[l] /\ snap[l] <= s]

\* (variant) init is left as it is found: the parent level starts over
Backtrack_keeps_init ==
    /\ level' = level - 1
    /\ UNCHANGED init
    /\ IF level - 1 >= 0
       THEN \E ok \in BOOLEAN :
              IF ok
              THEN /\ tab' = isl_tab_rollback(tab, snap[level - 1])
                   /\ valid' = StillValid(snap[level - 1])
                   /\ pc' = "loop_head"
                   /\ UNCHANGED err
              ELSE /\ pc' = "scan_error" /\ err' = "fault"
                   /\ UNCHANGED <<tab, valid>>
       ELSE /\ pc' = "loop_head"
            /\ UNCHANGED <<tab, valid, err>>

\* (variant) the rollback is to the snapshot of the level that is left
Backtrack_to_own_snapshot ==
    /\ level' = level - 1
    /\ init' = FALSE
    /\ IF level - 1 >= 0
       THEN \E ok \in BOOLEAN :
              IF ok
              THEN /\ tab' = isl_tab_rollback(tab, snap[level])
                   /\ valid' = StillValid(snap[level])
                   /\ pc' = "loop_head"
                   /\ UNCHANGED err
              ELSE /\ pc' = "scan_error" /\ err' = "fault"
                   /\ UNCHANGED <<tab, valid>>
       ELSE /\ pc' = "loop_head"
            /\ UNCHANGED <<tab, valid, err>>

\* lines 170-175 and 181-186: back to the parent level, whose equality is
\* undone by rolling back to the parent's snapshot
Backtrack ==
    /\ level' = level - 1
    /\ init' = FALSE
    /\ IF level - 1 >= 0
       THEN \E ok \in BOOLEAN :
              IF ok
              THEN /\ tab' = isl_tab_rollback(tab, snap[level - 1])
                   /\ valid' = StillValid(snap[level - 1])
                   /\ pc' = "loop_head"
                   /\ UNCHANGED err
              ELSE /\ pc' = "scan_error" /\ err' = "fault"
                   /\ UNCHANGED <<tab, valid>>
       ELSE /\ pc' = "loop_head"
            /\ UNCHANGED <<tab, valid, err>>

\* lines 169-176: the level is empty or used up
scan_backtrack ==
    /\ pc = "loop_test" /\ Exhausted
    /\ Backtrack
    /\ UNCHANGED <<set, entry, piece, bset, cb, cnt, B, empty, min, max,
                   snap, held, retVars, delivered, base, ranges, lastScan,
                   freed, idVars>>

\* lines 177-187: count the whole range of the last level at once
scan_shortcut ==
    /\ pc = "loop_test" /\ ~Exhausted /\ Shortcut
    /\ LET a == increment_range(cnt, min[level], max[level]) IN
         /\ cnt' = a.cnt
         /\ ranges' = Append(ranges, <<level, min[level], max[level]>>)
         /\ IF a.r # 0
            THEN /\ pc' = "scan_error" /\ err' = "stop"
                 /\ UNCHANGED <<tab, valid, level, init>>
            ELSE Backtrack
    /\ UNCHANGED <<set, entry, piece, bset, cb, B, empty, min, max, snap,
                   held, retVars, delivered, base, lastScan, freed,
                   idVars>>

\* lines 188-191: B->row[1 + level] with -min[level] in column 0, as a row
FixRow == [BRow(B, level) EXCEPT ![1] = -min[level]]

\* lines 188-190: the row is left with -min[level] in column 0 when adding
\* it fails (line 191, which puts 0 back, is jumped over)
FixFailed == [B EXCEPT ![level + 2] = FixRow]

\* lines 188-196: fix this direction and go one level down
scan_descend ==
    /\ pc = "loop_test" /\ ~Exhausted /\ ~Shortcut
    /\ level < bset.dim - 1
    /\ \E ok \in BOOLEAN :
         IF ok
         THEN /\ tab' = isl_tab_add_valid_eq(tab, FixRow)
              /\ level' = level + 1
              /\ init' = TRUE
              /\ pc' = "loop_head"
              /\ UNCHANGED <<err, B>>
         ELSE /\ pc' = "scan_error" /\ err' = "fault"
              /\ B' = FixFailed
              /\ UNCHANGED <<tab, level, init>>
    /\ UNCHANGED valid
    /\ UNCHANGED <<set, entry, piece, bset, cb, cnt, empty, min, max,
                   snap, held, retVars, delivered, base, ranges, lastScan,
                   freed, idVars>>

\* lines 53-64 and 188-201: fix the last direction, hand the sample of the
\* tableau to the callback and undo the equality
scan_emit ==
    /\ pc = "loop_test" /\ ~Exhausted /\ ~Shortcut
    /\ level = bset.dim - 1
    /\ \E fail \in {"none", "eq", "sample", "rollback"} :
         LET fixed == isl_tab_add_valid_eq(tab, FixRow)
             a == callback_add(cb, cnt, Len(delivered) + 1)
         IN IF fail = "eq"
            THEN /\ pc' = "scan_error" /\ err' = "fault"
                 /\ B' = FixFailed
                 /\ UNCHANGED <<tab, valid, init, cnt, delivered>>
            ELSE IF fail = "sample"
            THEN /\ tab' = fixed
                 /\ pc' = "scan_error" /\ err' = "fault"
                 /\ UNCHANGED <<B, valid, init, cnt, delivered>>
            ELSE /\ B' = B
                 /\ delivered' =
                        Append(delivered, isl_tab_get_sample_value(fixed))
                 /\ cnt' = a.cnt
                 /\ IF a.r < 0
                    THEN /\ tab' = fixed
                         /\ pc' = "scan_error" /\ err' = "stop"
                         /\ UNCHANGED <<valid, init>>
                    ELSE /\ init' = FALSE
                         /\ IF fail = "rollback"
                            THEN /\ tab' = fixed
                                 /\ pc' = "scan_error" /\ err' = "fault"
                                 /\ UNCHANGED valid
                            ELSE /\ tab' = isl_tab_rollback(fixed, snap[level])
                                 /\ valid' = StillValid(snap[level])
                                 /\ pc' = "loop_head"
                                 /\ UNCHANGED err
    /\ UNCHANGED <<set, entry, piece, bset, cb, level, empty, min, max,
                   snap, held, retVars, base, ranges, lastScan, freed,
                   idVars>>

\* (variant) the copy of the basis is not released
Leave_keeps_B(r) ==
    /\ Release(ScanRes \ {"B"})
    /\ scanRet' = r
    /\ pc' = "scan_done"
    /\ tab' = NoTab /\ B' = <<>> /\ level' = 0 /\ init' = TRUE
    /\ empty' = FALSE /\ min' = <<>> /\ max' = <<>> /\ snap' = <<>>
    /\ valid' = <<>>
    /\ UNCHANGED <<set, entry, piece, bset, cb, cnt, setRet, ret, out,
                   delivered, base, ranges, err, lastScan,
                   idVars>>

\* what both exits of isl_basic_set_scan release, and the locals forgotten
Leave(r) ==
    /\ Release(ScanRes)
    /\ scanRet' = r
    /\ pc' = "scan_done"
    /\ tab' = NoTab /\ B' = <<>> /\ level' = 0 /\ init' = TRUE
    /\ empty' = FALSE /\ min' = <<>> /\ max' = <<>> /\ snap' = <<>>
    /\ valid' = <<>>
    /\ UNCHANGED <<set, entry, piece, bset, cb, cnt, setRet, ret, out,
                   delivered, base, ranges, err, lastScan,
                   idVars>>

\* lines 204-210: the loop is left with level < 0
scan_finish ==
    /\ pc = "loop_head" /\ level < 0
    /\ Leave(0)

\* lines 211-218: the error label
scan_fail ==
    /\ pc = "scan_error"
    /\ Leave(-1)

---------------------------------------------------------------------------
(* isl_set_scan *)

SetEntries == {"set_scan", "set_count_upto", "set_count"}

\* lines 225-232: copy on write, make disjoint, compute the divs
isl_set_scan_normalize ==
    /\ pc = "set_begin"
    /\ \E ok \in BOOLEAN :
         IF ok
         THEN /\ piece' = 1 /\ pc' = "set_loop"
              /\ UNCHANGED <<held, setRet, err>>
         ELSE /\ held' = held \ {"set"}
              /\ setRet' = -1 /\ err' = "fault" /\ pc' = "set_done"
              /\ UNCHANGED piece
    /\ UNCHANGED <<set, entry, bset, cb, cnt, scanVars, scanRet, ret, out,
                   delivered, base, ranges, lastScan, freed,
                   idVars>>

\* lines 234-236: scan a copy of the next piece
isl_set_scan_piece ==
    /\ pc = "set_loop" /\ piece <= Len(set)
    /\ bset' = set[piece]
    /\ held' = held \cup {"bset"}
    /\ freed' = NoneFreed
    /\ pc' = "scan_begin"
    /\ UNCHANGED <<set, entry, piece, cb, cnt, scanVars, retVars, delivered,
                   base, ranges, err, lastScan, idVars>>

\* (variant) the result of the scan of a piece is not looked at
isl_set_scan_next_unchecked ==
    /\ pc = "scan_done" /\ entry \in SetEntries
    /\ piece' = piece + 1 /\ pc' = "set_loop"
    /\ UNCHANGED <<set, entry, bset, cb, cnt, scanVars, held, retVars,
                   histVars, idVars>>

\* lines 235-243: the scan of a piece has returned
isl_set_scan_next ==
    /\ pc = "scan_done" /\ entry \in SetEntries
    /\ IF scanRet < 0
       THEN /\ held' = held \ {"set"}
            /\ setRet' = -1 /\ pc' = "set_done"
            /\ UNCHANGED piece
       ELSE /\ piece' = piece + 1 /\ pc' = "set_loop"
            /\ UNCHANGED <<held, setRet>>
    /\ UNCHANGED <<set, entry, bset, cb, cnt, scanVars, scanRet, ret, out,
                   histVars,
                   idVars>>

\* lines 234 and 239-240: no piece is left
isl_set_scan_end ==
    /\ pc = "set_loop" /\ piece > Len(set)
    /\ held' = held \ {"set"}
    /\ setRet' = 0 /\ pc' = "set_done"
    /\ UNCHANGED <<set, entry, piece, bset, cb, cnt, scanVars, scanRet, ret,
                   out, histVars,
                   idVars>>

---------------------------------------------------------------------------
(* The entry points *)

NoCount == [count |-> 0, max |-> 0]

\* the caller scans (a copy of) its basic set with a callback of its own
isl_basic_set_scan_call ==
    \E k \in 0..MaxStop :
        /\ Begin("basic_set_scan", UserCb(k), NoCount)
        /\ bset' = set[1] /\ piece' = 0
        /\ held' = {"bset"}
        /\ pc' = "scan_begin"

\* isl_basic_set_scan has returned to the caller
isl_basic_set_scan_return ==
    /\ pc = "scan_done" /\ entry = "basic_set_scan"
    /\ ret' = scanRet
    /\ lastScan' = IF cb.stopAt = 0 /\ scanRet = 0
                   THEN Len(delivered) ELSE lastScan
    /\ pc' = "idle"
    /\ UNCHANGED <<set, entry, piece, bset, cb, cnt, scanVars, held, scanRet,
                   setRet, out, delivered, base, ranges, err, freed,
                   idVars>>

\* the caller scans (a copy of) its set with a callback of its own
isl_set_scan_call ==
    \E k \in 0..MaxStop :
        /\ Begin("set_scan", UserCb(k), NoCount)
        /\ bset' = NoBSet /\ piece' = 0
        /\ held' = {"set"}
        /\ pc' = "set_begin"

\* isl_set_scan has returned to the caller
isl_set_scan_return ==
    /\ pc = "set_done" /\ entry = "set_scan"
    /\ ret' = setRet
    /\ pc' = "idle"
    /\ UNCHANGED <<set, entry, piece, bset, cb, cnt, scanVars, held, scanRet,
                   setRet, out, histVars,
                   idVars>>

\* lines 249-259: the counter is set up and the basic set scanned
isl_basic_set_count_upto_begin ==
    \E cap \in 0..MaxCap :
        /\ Begin("basic_set_count_upto", CounterCb, [count |-> 0, max |-> cap])
        /\ bset' = set[1] /\ piece' = 0
        /\ held' = {"cnt.count", "cnt.max", "bset"}
        /\ pc' = "scan_begin"

\* lines 259-270 and 285-296: an error of the scan with the count below the
\* cap is an error; anything else hands the count out
CountEnd(r) ==
    /\ IF r < 0 /\ cnt.count < cnt.max
       THEN /\ held' = held \ {"cnt.count"}
            /\ ret' = -1
            /\ UNCHANGED out
       ELSE /\ out' = cnt.count
            /\ held' = held \ {"cnt.max", "cnt.count"}
            /\ ret' = 0
    /\ pc' = "idle"
    /\ UNCHANGED <<set, entry, piece, bset, cb, cnt, scanVars, scanRet,
                   setRet, histVars,
                   idVars>>

isl_basic_set_count_upto_end ==
    /\ pc = "scan_done" /\ entry = "basic_set_count_upto"
    /\ CountEnd(scanRet)

\* lines 275-285: the counter is set up and the set scanned
isl_set_count_upto_begin ==
    \E cap \in 0..MaxCap :
        /\ Begin("set_count_upto", CounterCb, [count |-> 0, max |-> cap])
        /\ bset' = NoBSet /\ piece' = 0
        /\ held' = {"cnt.count", "cnt.max", "set"}
        /\ pc' = "set_begin"

\* lines 299-304: isl_set_count_upto with ctx->zero as the cap
isl_set_count ==
    /\ Begin("set_count", CounterCb, NoCount)
    /\ bset' = NoBSet /\ piece' = 0
    /\ held' = {"cnt.count", "cnt.max", "set"}
    /\ pc' = "set_begin"

isl_set_count_upto_end ==
    /\ pc = "set_done" /\ entry \in {"set_count_upto", "set_count"}
    /\ CountEnd(setRet)

---------------------------------------------------------------------------
(* Identifiers (isl_id.c) *)

\* Identifiers live at the addresses 1..MaxIds.
MaxIds == 2
\* The caller holds at most MaxRef references on one identifier.
MaxRef == 2

\* the address of the static identifier isl_id_none
isl_id_none == 0

\* a null name
NoName == "(null)"
Names == {NoName, "x", "#none"}
\* user pointers; 0 is the null pointer
Users == 0..1
\* free_user callbacks; 0 is the null pointer
Finalizers == 0..1

Addrs == 1..MaxIds

Blank == [ref |-> 0, name |-> NoName, user |-> 0, free_user |-> 0, hash |-> 0]
NoneId == [ref |-> -1, name |-> "#none", user |-> 0, free_user |-> 0,
           hash |-> 0]

\* Hashes are 32 bits wide and a name may hash like a pointer does: here
\* the name "x" and the user pointer 1 collide.
isl_hash_string(n) == IF n = "x" THEN 1 ELSE IF n = "#none" THEN 2 ELSE 3
isl_hash_builtin(u) == u

\* lines 57-61 and 93-97: the hash of a key
KeyHash(name, user) ==
    IF name # NoName THEN isl_hash_string(name) ELSE isl_hash_builtin(user)

\* (variant) the result of strcmp returned as it is
isl_id_has_name_and_user_strcmp(id, nu) ==
    IF id.user # nu.user THEN 0
    ELSE IF id.name = NoName /\ nu.name = NoName THEN 1
    ELSE IF id.name = NoName \/ nu.name = NoName THEN -1
    ELSE IF id.name = nu.name THEN 0 ELSE 1

\* lines 74-85: 1 or 0; -1 stands for strcmp reading a null pointer, which
\* is undefined
isl_id_has_name_and_user(id, nu) ==
    IF id.user # nu.user THEN 0
    ELSE IF id.name = NoName /\ nu.name = NoName THEN 1
    ELSE IF id.name = NoName \/ nu.name = NoName THEN -1
    ELSE IF id.name = nu.name THEN 1 ELSE 0

\* no key: no isl_id_alloc has returned an identifier yet
NoKey == [name |-> NoName, user |-> -1]

\* the call op of the identifier a, as far as isl_id_none is concerned
OnNone(op, a) == IF a = isl_id_none THEN op ELSE "no"

IdInit ==
    /\ heap = [a \in {isl_id_none} \cup Addrs |->
                  IF a = isl_id_none THEN NoneId ELSE Blank]
    /\ live = {} /\ table = {} /\ ctxRef = 0
    /\ holds = [a \in Addrs |-> 0]
    /\ fin = [a \in Addrs |-> 0]
    /\ result = -1
    /\ crashed = FALSE
    /\ asked = NoKey /\ onNone = "no"
    /\ finArg = [a \in Addrs |-> -1]

\* (variant) the count is raised whatever its sign
Copy_any_sign(a) ==
    /\ heap' = [heap EXCEPT ![a].ref = @ + 1]
    /\ holds' = IF a \in Addrs THEN [holds EXCEPT ![a] = @ + 1] ELSE holds

\* lines 113-123, on an identifier the caller holds or the static one
Copy(a) ==
    IF heap[a].ref < 0
    THEN UNCHANGED <<heap, holds>>
    ELSE /\ heap' = [heap EXCEPT ![a].ref = @ + 1]
         /\ holds' = [holds EXCEPT ![a] = @ + 1]

\* what the caller may pass: an identifier it holds a reference on
Held == {a \in Addrs : holds[a] > 0}

\* lines 40-67 and 87-108
isl_id_alloc ==
    /\ ~crashed
    /\ \E name \in Names, user \in Users :
         LET nu == [name |-> name, user |-> user]
             h == KeyHash(name, user)
             cand == {a \in table : heap[a].hash = h}
             hits == {a \in cand : isl_id_has_name_and_user(heap[a], nu) = 1}
             ubs == {a \in cand : isl_id_has_name_and_user(heap[a], nu) = -1}
         IN /\ onNone' = "no"
            /\ \/ \E a \in hits \cup ubs :
                    \* the entry is found (strcmp on a null pointer may say so)
                    /\ heap[a].ref < MaxRef
                    /\ Copy(a)
                    /\ result' = a /\ asked' = nu
                    /\ UNCHANGED <<live, table, ctxRef, fin, finArg, crashed>>
               \/ /\ ubs # {}
                  /\ crashed' = TRUE
                  /\ UNCHANGED <<heap, live, table, ctxRef, holds, fin, finArg,
                                 result, asked>>
               \/ /\ hits = {}
                  /\ \E ok \in BOOLEAN :
                       IF ok /\ Addrs \ live # {}
                       THEN \E a \in Addrs \ live :
                              /\ heap' = [heap EXCEPT ![a] =
                                    [ref |-> 1, name |-> name, user |-> user,
                                     free_user |-> 0, hash |-> h]]
                              /\ live' = live \cup {a}
                              /\ table' = table \cup {a}
                              /\ ctxRef' = ctxRef + 1
                              /\ holds' = [holds EXCEPT ![a] = 1]
                              /\ fin' = [fin EXCEPT ![a] = 0]
                              /\ finArg' = [finArg EXCEPT ![a] = -1]
                              /\ result' = a /\ asked' = nu
                              /\ UNCHANGED crashed
                       ELSE \* no memory: the reserved slot is given back
                            /\ result' = -1
                            /\ asked' = NoKey
                            /\ UNCHANGED <<heap, live, table, ctxRef, holds, fin,
                                           finArg, crashed>>
    /\ UNCHANGED <<callVars, scanVars, held, retVars, histVars>>

isl_id_copy ==
    /\ ~crashed
    /\ \E a \in {isl_id_none} \cup Held :
         /\ heap[a].ref < MaxRef
         /\ Copy(a)
         /\ onNone' = OnNone("copy", a)
    /\ UNCHANGED <<live, table, ctxRef, fin, finArg, result, crashed, asked>>
    /\ UNCHANGED <<callVars, scanVars, held, retVars, histVars>>

\* lines 140-149
isl_id_set_free_user ==
    /\ ~crashed
    /\ \E a \in {isl_id_none} \cup Held, f \in Finalizers :
         /\ heap' = [heap EXCEPT ![a].free_user = f]
         /\ onNone' = "no"
    /\ UNCHANGED <<live, table, ctxRef, holds, fin, finArg, result, crashed,
                   asked>>
    /\ UNCHANGED <<callVars, scanVars, held, retVars, histVars>>

\* (variant) the finalizer is run before the count is looked at
isl_id_free_finalizes_first ==
    /\ ~crashed
    /\ \E a \in {isl_id_none} \cup Held :
         /\ onNone' = OnNone("free", a)
         /\ IF heap[a].ref < 0
            THEN UNCHANGED <<heap, live, table, ctxRef, holds, fin, finArg>>
            ELSE /\ fin' = [fin EXCEPT ![a] =
                               IF heap[a].free_user # 0 THEN @ + 1 ELSE @]
                 /\ finArg' = [finArg EXCEPT ![a] =
                               IF heap[a].free_user # 0 THEN heap[a].user ELSE @]
                 /\ holds' = [holds EXCEPT ![a] = @ - 1]
                 /\ IF heap[a].ref - 1 > 0
                    THEN /\ heap' = [heap EXCEPT ![a].ref = @ - 1]
                         /\ UNCHANGED <<live, table, ctxRef>>
                    ELSE /\ table' = table \ {a}
                         /\ ctxRef' = ctxRef - 1
                         /\ live' = live \ {a}
                         /\ heap' = [heap EXCEPT ![a] = Blank]
    /\ UNCHANGED <<result, crashed, asked>>
    /\ UNCHANGED <<callVars, scanVars, held, retVars, histVars>>

\* lines 154-183
isl_id_free ==
    /\ ~crashed
    /\ \E a \in {isl_id_none} \cup Held :
         /\ onNone' = OnNone("free", a)
         /\ IF heap[a].ref < 0
            THEN UNCHANGED <<heap, live, table, ctxRef, holds, fin, finArg>>
            ELSE IF heap[a].ref - 1 > 0
            THEN /\ heap' = [heap EXCEPT ![a].ref = @ - 1]
                 /\ holds' = [holds EXCEPT ![a] = @ - 1]
                 /\ UNCHANGED <<live, table, ctxRef, fin, finArg>>
            ELSE /\ table' = table \ {a}
                 /\ fin' = [fin EXCEPT ![a] =
                               IF heap[a].free_user # 0 THEN @ + 1 ELSE @]
                 /\ finArg' = [finArg EXCEPT ![a] =
                               IF heap[a].free_user # 0 THEN heap[a].user ELSE @]
                 /\ ctxRef' = ctxRef - 1
                 /\ live' = live \ {a}
                 /\ heap' = [heap EXCEPT ![a] = Blank]
                 /\ holds' = [holds EXCEPT ![a] = @ - 1]
    /\ UNCHANGED <<result, crashed, asked>>
    /\ UNCHANGED <<callVars, scanVars, held, retVars, histVars>>

---------------------------------------------------------------------------
(* The two specifications: the scan of a caller's set, and the identifiers *)
(* of a context.                                                           *)

Init == ScanInit(Sets) /\ IdInit

Next ==
    \/ isl_basic_set_scan_call
    \/ isl_basic_set_scan_return
    \/ isl_set_scan_call
    \/ isl_set_scan_return
    \/ isl_basic_set_count_upto_begin
    \/ isl_basic_set_count_upto_end
    \/ isl_set_count_upto_begin
    \/ isl_set_count
    \/ isl_set_count_upto_end
    \/ isl_set_scan_normalize
    \/ isl_set_scan_piece
    \/ isl_set_scan_next
    \/ isl_set_scan_end
    \/ scan_0D
    \/ isl_basic_set_scan_setup
    \/ isl_basic_set_scan_setup_fail
    \/ scan_range
    \/ scan_advance
    \/ scan_backtrack
    \/ scan_shortcut
    \/ scan_descend
    \/ scan_emit
    \/ scan_finish
    \/ scan_fail

Spec == Init /\ [][Next]_vars

\* the steps of isl_basic_set_scan: a call that has begun goes on to its
\* return
ScanStep ==
    \/ scan_0D
    \/ isl_basic_set_scan_setup
    \/ isl_basic_set_scan_setup_fail
    \/ scan_range
    \/ scan_advance
    \/ scan_backtrack
    \/ scan_shortcut
    \/ scan_descend
    \/ scan_emit
    \/ scan_finish
    \/ scan_fail

SpecFair == Spec /\ WF_vars(ScanStep)

InitId == ScanInit({<<Zero>>}) /\ IdInit

NextId ==
    \/ isl_id_alloc
    \/ isl_id_copy
    \/ isl_id_set_free_user
    \/ isl_id_free

SpecId == InitId /\ [][NextId]_vars

---------------------------------------------------------------------------
(* Properties *)

Samples(sq) == {sq[i] : i \in 1..Len(sq)}

\* the entry point e has returned to the caller
Returned(e) == pc = "idle" /\ entry = e

\* the input of the call: the caller's basic set, or all the pieces
Input == IF entry \in SetEntries THEN set ELSE <<set[1]>>

AllBounded(S) == \A i \in 1..Len(S) : ~Unbounded(S[i])

\* the number of integer points of a disjoint union of bounded pieces
TrueCount(S) == Cardinality(UNION {IntPoints(S[i]) : i \in 1..Len(S)})

\* the coordinates of the sample q in the basis M (rows 1..d)
Coords(M, q) == [j \in 1..(Len(M) - 1) |-> Dot(M[j + 1], q)]

LexLess(u, v) ==
    \E i \in 1..Len(u) : u[i] < v[i] /\ \A j \in 1..(i - 1) : u[j] = v[j]

\* C1: a scan of a bounded basic set of dimension d >= 1 with a callback that
\* always continues (and no operation failing) returns 0 having delivered
\* every integer point of the set exactly once; and whatever the callback,
\* every delivered sample is an integer point of the set.
C1_ScanComplete ==
    /\ (entry = "basic_set_scan" /\ bset.dim >= 1)
          => Samples(delivered) \subseteq IntPoints(bset)
    /\ (/\ Returned("basic_set_scan") /\ bset.dim >= 1
        /\ ~Unbounded(bset) /\ cb.stopAt = 0 /\ err # "fault")
          => /\ ret = 0
             /\ Samples(delivered) = IntPoints(bset)
             /\ Len(delivered) = Cardinality(IntPoints(bset))

C1_Witness ==
    /\ Returned("basic_set_scan") /\ bset.dim = 2 /\ cb.stopAt = 0
    /\ ret = 0 /\ Len(delivered) >= 6
    /\ B = <<>>

\* C2: the count of a bounded basic set with the unlimited cap 0 equals the
\* number of callbacks of a complete collector scan of the same basic set.
C2_CountAgreesWithScan ==
    (/\ Returned("basic_set_count_upto") /\ cnt.max = 0
     /\ ~Unbounded(bset) /\ err # "fault" /\ lastScan # -1)
       => ret = 0 /\ out = lastScan

C2_Witness ==
    /\ Returned("basic_set_count_upto") /\ cnt.max = 0 /\ ret = 0
    /\ Len(ranges) >= 2 /\ lastScan >= 4 /\ out = lastScan

\* C3 (as stated): counting a bounded input with a cap > 0 returns 0 with
\* out <= cap, out = cap iff the input has at least cap integer points, and
\* out the number of points otherwise.
C3_CapHonored ==
    (/\ pc = "idle"
     /\ entry \in {"basic_set_count_upto", "set_count_upto"}
     /\ cnt.max > 0 /\ AllBounded(Input) /\ err # "fault")
       => /\ ret = 0
          /\ out <= cnt.max
          /\ (out = cnt.max) <=> (TrueCount(Input) >= cnt.max)
          /\ (TrueCount(Input) < cnt.max) => out = TrueCount(Input)

\* a stopping callback has returned stop
Stopped == cb.kind = "user" /\ cb.stopAt > 0 /\ Len(delivered) >= cb.stopAt

\* C4: once the callback has returned stop at its k-th invocation it is not
\* invoked again: the basic set scan goes to its error exit and returns -1,
\* isl_set_scan scans no further piece and returns -1, and k samples were
\* delivered.
C4_StopEndsTheScan ==
    Stopped =>
        /\ Len(delivered) = cb.stopAt
        /\ pc \in {"scan_error", "scan_done", "set_done", "idle"}
        /\ pc # "scan_error" => scanRet = -1
        /\ (pc \in {"set_done", "idle"} /\ entry = "set_scan") => setRet = -1
        /\ pc = "idle" => ret = -1

C4_Witness ==
    /\ Stopped /\ Returned("set_scan") /\ piece < Len(set)
    /\ IntPoints(set[Len(set)]) # {}

\* C5 (as stated): a counting entry point whose scan failed with a genuine
\* error returns -1 and leaves out untouched, whatever the cap; it returns
\* 0 only when the scan completed or stopped at the cap.
C5_GenuineErrorReported ==
    (/\ pc = "idle"
     /\ entry \in {"basic_set_count_upto", "set_count_upto", "set_count"})
       => /\ err \in {"fault", "unbounded"} => (ret = -1 /\ out = -1)
          /\ ret = 0 => err \in {"none", "stop"}

\* C6 (as stated): scanning an empty basic set of any dimension invokes the
\* callback zero times and returns 0, and counting it gives 0.
C6_EmptyYieldsNothing ==
    (/\ pc = "idle"
     /\ entry \in {"basic_set_scan", "basic_set_count_upto"}
     /\ ~Unbounded(bset) /\ IntPoints(bset) = {} /\ err # "fault")
       => /\ delivered = <<>>
          /\ ret = 0
          /\ entry = "basic_set_count_upto" => out = 0

\* C7: the scan of a zero-dimensional basic set (its allocation succeeding)
\* invokes the callback once, with the sample [1], builds no tableau and
\* returns what the callback returned; the counter is advanced by one by
\* increment_counter, not by a range.
C7_ZeroDimensional ==
    (pc = "scan_done" /\ bset.dim = 0 /\ err # "fault")
       => /\ Len(delivered) = base + 1
          /\ delivered[Len(delivered)] = <<1>>
          /\ tab = NoTab /\ "tab" \notin held
          /\ ranges = <<>>
          /\ cb.kind = "user" => scanRet = user_add(cb, Len(delivered))
          /\ cb.kind = "counter" =>
                /\ cnt.count = Len(delivered)
                /\ scanRet = IF cnt.max = 0 \/ cnt.count < cnt.max
                             THEN 0 ELSE -1

C7_Witness ==
    /\ pc = "scan_done" /\ bset.dim = 0 /\ err # "fault"
    /\ cb.kind = "counter" /\ cnt.count = 1 /\ delivered = <<<<1>>>>

\* C8 (as stated): the scan of an unbounded basic set returns -1.
C8_UnboundedIsAnError ==
    (Returned("basic_set_scan") /\ Unbounded(bset)) => ret = -1

\* C9: within one basic set scan the delivered samples are strictly
\* increasing in the lexicographic order of their coordinates in the basis
\* B, level 0 first.
C9_LexOrderInBasis ==
    (B # <<>>) =>
        \A i \in (base + 1)..(Len(delivered) - 1) :
            LexLess(Coords(B, delivered[i]), Coords(B, delivered[i + 1]))

\* the order in the basis is not the order of the original coordinates
C9_Witness ==
    /\ B # <<>> /\ Len(delivered) >= base + 3
    /\ \E i \in (base + 1)..(Len(delivered) - 1) :
          ~LexLess(Tail(delivered[i]), Tail(delivered[i + 1]))


\* two identifiers with the same key
SameKey(a, b) == heap[a].user = heap[b].user /\ heap[a].name = heap[b].name

\* C10: the interning table holds exactly the live identifiers, and no two
\* of them have the same user and the same name (both absent, or equal).
C10_OneIdPerKey ==
    /\ table = live
    /\ \A a \in table : heap[a].ref > 0
    /\ \A a \in table, b \in table : a # b => ~SameKey(a, b)

\* two identifiers of the same name and different users, one interned twice
C10_Witness ==
    /\ \E a \in table, b \in table :
          /\ a # b /\ heap[a].name = "x" /\ heap[b].name = "x"
          /\ heap[a].ref = 2 /\ heap[b].free_user # 0
    /\ ~crashed

\* isl_basic_set_scan is running
InScan == pc \in {"scan_begin", "loop_head", "loop_test", "scan_error"}

\* what C14 says of one step of isl_basic_set_scan
ExitStep ==
    /\ InScan' => (freed' = NoneFreed /\ "bset" \in held')
    /\ (InScan /\ pc' = "scan_done") =>
          /\ held' \cap ScanRes = {}
          /\ \A r \in ScanRes : freed'[r] = IF r \in held THEN 1 ELSE 0
          /\ freed'["bset"] = 1

\* C14: on every exit of isl_basic_set_scan, min, max, snap, the tableau
\* and B have each been released once if they were acquired, and not at
\* all otherwise, and the basic set has been consumed once; nothing is
\* released before the exit.
C14_ReleasedOnce == [][ExitStep]_vars

\* an allocation has failed: min and the basic set were released, and
\* neither max nor a tableau nor a basis, which were never acquired
C14_Witness ==
    /\ pc = "scan_done" /\ err = "fault" /\ bset.dim > 0
    /\ freed["min"] = 1 /\ freed["bset"] = 1
    /\ freed["max"] = 0 /\ freed["tab"] = 0 /\ freed["B"] = 0
    /\ held \cap ScanRes = {}

CountEntries == {"basic_set_count_upto", "set_count_upto", "set_count"}

\* C15 (as stated): a counting entry point has released cnt.count and
\* cnt.max when it returns, with an error or not.
C15_CounterCleared ==
    (pc = "idle" /\ entry \in CountEntries) =>
        ("cnt.count" \notin held /\ "cnt.max" \notin held)

\* the equality that fixes direction j to the current min[j]
FixedAt(j) == [BRow(B, j) EXCEPT ![1] = -min[j]]

\* at the head of an iteration of the sweep (level >= 0) the tableau holds,
\* beside the constraints of the basic set, the equalities of the levels
\* 0..level-1 and no other, the one of level j fixing direction j to the
\* current min[j]
LevelsFixed ==
    /\ Len(tab.added) = level
    /\ \A j \in 0..(level - 1) : tab.added[j + 1] = FixedAt(j)
    /\ tab.eq = bset.eq /\ tab.ineq = bset.ineq

\* line 133 and B->row[0]: the homogeneous row (1, 0, ..., 0)
HomogeneousRow(d) == [i \in 1..(d + 1) |-> IF i = 1 THEN 1 ELSE 0]

\* C16 (as stated): at the head of an iteration of the sweep (level >= 0)
\* the tableau holds exactly the equalities of the levels 0..level-1, there
\* are never more than d of them, and column 0 of every row of B is 0, the
\* row 0 of B included.
C16_EveryRowOfB ==
    /\ (pc = "loop_head" /\ level >= 0) =>
          /\ LevelsFixed
          /\ \A i \in 1..Len(B) : B[i][1] = 0
    /\ Len(tab.added) <= bset.dim \/ tab = NoTab

\* C16 (amended): at the head of an iteration of the sweep (level >= 0) the
\* tableau holds, beside the constraints of the basic set, the equalities
\* of the levels 0..level-1 and no other, the one of level j fixing
\* direction j to the current min[j]; there are never more than d of them
\* (d+1 are provided for); column 0 of each direction row B[1..d] is 0,
\* and row 0 of B is the homogeneous row (1, 0, ..., 0), with 1 in
\* column 0.
C16_EqualitiesOfTheLevels ==
    /\ (pc = "loop_head" /\ level >= 0) =>
          /\ LevelsFixed
          /\ \A j \in 0..(bset.dim - 1) : BRow(B, j)[1] = 0
          /\ B[1] = HomogeneousRow(bset.dim)
    /\ Len(tab.added) <= bset.dim \/ tab = NoTab

\* back at the head at level 1 of a skewed basis, after a sample, with
\* direction 0 fixed to a value that is not the first
C16_Witness ==
    /\ pc = "loop_head" /\ level = 1 /\ ~init /\ Len(delivered) > base
    /\ min[0] > 0 /\ tab.added = <<FixedAt(0)>>
    /\ BRow(B, 0) = <<0, 1, 1>>

\* C17: in the scans of basic sets of dimension d >= 1 with the counter as
\* callback, increment_range is invoked at level d-1 only and on a range
\* with min <= max only, no equality is added for level d-1 (the tableau
\* never holds d of them), no sample is taken and increment_counter is not
\* invoked; with another callback increment_range is not invoked.
C17_RangeAtLastLevelOnly ==
    /\ cb.kind # "counter" => ranges = <<>>
    /\ (cb.kind = "counter" /\ bset.dim >= 1) =>
          /\ \A i \in 1..Len(ranges) :
                /\ ranges[i][1] = bset.dim - 1
                /\ ranges[i][2] <= ranges[i][3]
          /\ Len(tab.added) < bset.dim
          /\ delivered = <<>>
          /\ cnt.count > 0 => ranges # <<>>

\* a count in dimension 2 that took several ranges, all at level 1
C17_Witness ==
    /\ cb.kind = "counter" /\ bset.dim = 2 /\ pc = "scan_done"
    /\ scanRet = 0 /\ Len(ranges) >= 3 /\ cnt.count >= 6

\* the snapshot of level l was taken at the last range computation of the
\* level (when the tableau held the equalities of the levels above it) and
\* no rollback to an earlier snapshot has dropped it since
Usable(l) == snap[l] # -1 /\ valid[l] /\ snap[l] = l

\* what C20 says of one step of the sweep
RollbackStep ==
    \* lines 172-174 and 183-185: the rollback to the parent's snapshot
    /\ (pc = "loop_test" /\ level' = level - 1 /\ level' >= 0) =>
          Usable(level - 1)
    \* lines 200-201: the rollback that undoes the equality of the sample
    /\ (pc = "loop_test" /\ Len(delivered') > Len(delivered) /\ ~init') =>
          Usable(level)
    \* the snapshots of the levels in use stay usable
    /\ pc' \in {"loop_head", "loop_test"} =>
          \A l \in 0..(level' - 1) : snap'[l] # -1 /\ valid'[l]

\* C20: every rollback is to a snapshot that was written, at the last range
\* computation of its level, and that no rollback to the snapshot of a
\* shallower level has dropped since.
C20_RollbackToLiveSnapshot == [][RollbackStep]_vars

\* at level 1 again under a second value of direction 0: the snapshot of
\* level 1 was dropped by the rollback to that of level 0 and taken anew,
\* and the sample just delivered was undone by a rollback to it
C20_Witness ==
    /\ pc = "loop_head" /\ level = 1 /\ ~init /\ min[0] > 0
    /\ Len(delivered) >= base + 3
    /\ Usable(0) /\ Usable(1)

\* the rational polyhedron of b has no direction of recession, or is empty
Bounded(b) ==
    \/ \A r \in Rays(b.dim) : ~Recedes(b.eq, b.ineq, r)
    \/ RatEmpty(b)

\* the sweep of a bounded basic set of dimension d >= 1 with a callback
\* that always continues
Sweeping ==
    /\ pc \in {"loop_head", "loop_test"}
    /\ cb.kind = "user" /\ cb.stopAt = 0
    /\ bset.dim >= 1 /\ Bounded(bset)

\* The place of the sweep in the search, as a number written with one
\* digit for "the loop is left" and one digit per level, level 0 first.
\* The digit of a level above the current one says that the values below
\* its min are done and the one at min is being searched; the digit of the
\* current level says that its range is still to be computed, that min is
\* to be looked at, or that min is done; deeper levels count for nothing.
\* A basis direction has at most two coefficients, each in -1..1, so its
\* values on the set lie in -ValBound..ValBound, and min goes up to one
\* more than the largest of them.
ValBound == 2 * Radius
Off == ValBound + 1
Digit(l) ==
    IF l < level THEN 3 * (min[l] + Off) + 1
    ELSE IF l > level THEN 0
    ELSE IF pc = "loop_test" THEN 3 * (min[l] + Off)
    ELSE IF init THEN 0 ELSE 3 * (min[l] + Off) + 2
Base == 3 * (2 * Off) + 3

RECURSIVE Power(_, _)
Power(b, n) == IF n = 0 THEN 1 ELSE b * Power(b, n - 1)

RECURSIVE RankFrom(_)
RankFrom(l) ==
    IF l >= bset.dim THEN 0
    ELSE Digit(l) * Power(Base, bset.dim - 1 - l) + RankFrom(l + 1)

Rank == (IF level < 0 THEN Power(Base, bset.dim) ELSE 0) + RankFrom(0)

\* what C18 says of one step of the sweep
SweepStep ==
    /\ pc' \in {"loop_head", "loop_test"} =>
          level' \in -1..(bset'.dim - 1)
    \* the search moves on, and has only so many places to move to
    /\ (Sweeping /\ pc' \in {"loop_head", "loop_test"}) =>
          (Rank < Rank' /\ Rank' <= Power(Base, bset.dim))
    \* Rank is at its largest when level is -1, and the loop is left
    /\ (Sweeping /\ level = -1) => (pc' = "scan_done" /\ scanRet' = 0)
    /\ (Sweeping' /\ level' >= 0) => Rank' < Power(Base, bset.dim)

\* the loop is left: level is -1, or an operation of the tableau failed
SweepOver ==
    \/ pc = "loop_head" /\ level = -1
    \/ pc = "scan_error" /\ err = "fault"

\* C18: the sweep of a bounded basic set of dimension d >= 1 with a
\* callback that always continues ends.  Every iteration moves the search
\* on to a later one of finitely many places, the last of which is level
\* -1, where the function returns 0; an iteration is always possible while
\* the loop runs; so the sweep reaches level -1 after finitely many
\* iterations, unless an operation of the tableau fails, which ends it at
\* once.  level is in -1..d-1 throughout.
C18_SweepTerminates ==
    /\ [][SweepStep]_vars
    /\ [](Sweeping => ENABLED ScanStep)

\* the same as a property of SpecFair: a sweep that has begun comes to its
\* end
SweepComesToItsEnd == Sweeping ~> SweepOver

\* a complete sweep in dimension 2 has returned 0
C18_Witness ==
    /\ pc = "scan_done" /\ bset.dim = 2 /\ ~Unbounded(bset)
    /\ cb.kind = "user" /\ cb.stopAt = 0
    /\ err = "none" /\ scanRet = 0 /\ Len(delivered) >= base + 6

---------------------------------------------------------------------------
(* Properties of the identifiers *)

\* the identifier at address a of the heap h has the key k
HasKey(h, a, k) == h[a].name = k.name /\ h[a].user = k.user

\* what C11 says of one step of the caller; gets tells whether the
\* identifier returned by the last intern is that of the key asked for
InternCopyFreeStep(gets(_, _)) ==
    \* the count is interns + copies - frees, and the identifier is in the
    \* table exactly while it is positive
    /\ \A a \in Addrs :
          /\ heap'[a].ref = holds'[a]
          /\ a \in table' <=> holds'[a] > 0
          /\ holds'[a] > holds[a] => heap'[a].ref = heap[a].ref + 1
    \* the instance returned for a key is the live identifier of that key
    /\ (result' # -1 /\ result' \in live') => gets(heap'[result'], asked')
    \* an intern with no live identifier of its key makes a fresh entry
    /\ \A a \in Addrs :
          (a \notin live /\ a \in live') =>
              /\ result' = a /\ heap'[a].ref = 1 /\ a \in table'
              /\ \A b \in live : ~HasKey(heap, b, asked')

KeyOf(id, k) == id.name = k.name /\ id.user = k.user

\* C11 (as stated): the reference count of an identifier is the number of
\* interns and copies less the frees, every intern and copy adding one, and
\* the identifier is in the table exactly while that number is positive; an
\* intern hands out the live identifier of that very key, so that a key
\* differing in name or user gets a distinct instance, or else, no such
\* identifier being live, a fresh entry with count 1.
C11_InternCopyFree == [][InternCopyFreeStep(KeyOf)]_vars

\* the key is that of the identifier, or comparing them reads a null name
KeyOfOrNullRead(id, k) ==
    KeyOf(id, k) \/ isl_id_has_name_and_user(id, k) = -1

\* C11 holds but for the interns whose lookup compares a null name with a
\* name (C19)
InternCopyFree_ButNullNameRead ==
    [][InternCopyFreeStep(KeyOfOrNullRead)]_vars

\* what C12 says of one step of the caller, for the identifier at a
FinalizerStep(a) ==
    LET last == holds[a] = 1 /\ holds'[a] = 0 IN
    \* a finalizer runs only at the free of the last reference, and gets
    \* the user pointer of the identifier
    /\ fin'[a] > fin[a] =>
          /\ last /\ heap[a].free_user # 0
          /\ a \notin live'
          /\ finArg'[a] = heap[a].user
    \* at that free the finalizer installed runs, once
    /\ (last /\ heap[a].free_user # 0) => fin'[a] = 1
    \* without a finalizer none runs
    /\ (last /\ heap[a].free_user = 0) => (fin'[a] = 0 /\ finArg'[a] = -1)
    \* none has run while a reference is outstanding
    /\ holds'[a] > 0 => fin'[a] = 0

\* C12: the finalizer installed on an identifier is invoked exactly once,
\* with the stored user pointer, at the free that drops the count to zero
\* and never while a reference is outstanding; no finalizer is invoked for
\* an identifier without one.
C12_FinalizerOnce == [][\A a \in Addrs : FinalizerStep(a)]_vars

\* the finalizer of an identifier has run on its user pointer at the last
\* free, the other identifier, with a finalizer too, being still referenced
\* twice
C12_Witness ==
    /\ \E a \in Addrs \ live :
          /\ fin[a] = 1 /\ finArg[a] = 1
          /\ \E b \in live :
                heap[b].free_user # 0 /\ heap[b].ref = 2 /\ fin[b] = 0
    /\ ~crashed

\* what C13 says of one step of the caller
SentinelStep ==
    /\ heap'[isl_id_none].ref = -1
    /\ isl_id_none \notin table'
    /\ result' # isl_id_none
    /\ onNone' # "no" =>
          UNCHANGED <<heap, live, table, ctxRef, holds, fin, finArg>>

\* C13: isl_id_copy and isl_id_free on isl_id_none leave its count (-1),
\* the table and the references on the context as they are and run no
\* finalizer; isl_id_alloc never returns isl_id_none, not even for the name
\* "#none" with a null user.
C13_SentinelUntouched == [][SentinelStep]_vars

\* isl_id_none, on which a finalizer was installed, has just been freed
\* while an identifier of its name and user, with a finalizer, is interned
C13_Witness ==
    /\ onNone = "free" /\ heap[isl_id_none].free_user # 0
    /\ \E a \in table :
          /\ heap[a].name = "#none" /\ heap[a].user = 0
          /\ heap[a].free_user # 0 /\ result = a
    /\ ~crashed

\* C19 (as stated): for every stored identifier and every key,
\* isl_id_has_name_and_user returns 1 when the users are equal and the names
\* are equal or both absent, and 0 otherwise, and never faults: 0 too when
\* the users are equal and exactly one of the names is absent.
C19_EqualityIsTotal ==
    /\ \A a \in table, name \in Names, user \in Users :
          LET nu == [name |-> name, user |-> user] IN
          isl_id_has_name_and_user(heap[a], nu) =
              IF KeyOf(heap[a], nu) THEN 1 ELSE 0
    /\ ~crashed

=============================================================================
